---- MODULE Spec2Model ----
(***************************************************************************)
(* Model of event-driven-core's MessageBus (messagebus.rs): one call of    *)
(* MessageBus::handle runs the command handler registered for the          *)
(* command's type and then drains the ContextManager's event queue,        *)
(* dispatching every event to the handlers registered for its topic.       *)
(* Handlers are application code: what they push and what they return is   *)
(* chosen nondeterministically.                                            *)
(***************************************************************************)
EXTENDS Integers, Sequences, FiniteSets, TLC

\* ------------------------------------------------------------------------
\* Bounds of the model
\* ------------------------------------------------------------------------

\* Events created during one call of handle.
MaxEvents == 3

\* ------------------------------------------------------------------------
\* Messages, responses, errors
\* ------------------------------------------------------------------------

\* Command types submitted by callers; "Unregistered" has no registry entry.
Commands == {"CreateOrder", "CancelOrder", "Unregistered"}

\* Topics of the events handlers create; "OrderShipped" is registered with an
\* empty handler list and "GhostEvent" has no registry entry.
Topics == {"OrderPlaced", "RefundIssued", "OrderShipped", "GhostEvent"}

\* Success values of the command handlers.
Responses == {"OrderCreated", "OrderCancelled"}

NoEvent == [topic |-> "none", id |-> 0]

\* BaseError: the closed set of base signals.
Base(signal) == [signal |-> signal, event |-> NoEvent]
BaseStopSentinelWithEvent(event) == [signal |-> "StopSentinelWithEvent", event |-> event]
NoBase == Base("none")

\* The application's error enum (the type #[derive(ApplicationError)] is put
\* on): the three marked variants, the BaseError(..) wrapper variant and one
\* variant of the application's own.
App(variant) == [variant |-> variant, event |-> NoEvent, base |-> NoBase]
AppStopSentinelWithEvent(event) == [variant |-> "StopSentinelWithEvent", event |-> event, base |-> NoBase]
AppBaseError(base) == [variant |-> "BaseError", event |-> NoEvent, base |-> base]
NoError == App("none")

\* impl From<BaseError> for the application error.
FromBaseError(value) ==
    CASE value.signal = "StopSentinel" -> App("StopSentinel")
      [] value.signal = "StopSentinelWithEvent" -> AppStopSentinelWithEvent(value.event)
      [] value.signal = "DatabaseError" -> App("DatabaseError")
      [] OTHER -> AppBaseError(value)

\* impl From<the application error> for BaseError (err.into()).
IntoBaseError(value) ==
    CASE value.variant = "StopSentinel" -> Base("StopSentinel")
      [] value.variant = "StopSentinelWithEvent" -> BaseStopSentinelWithEvent(value.event)
      [] value.variant = "DatabaseError" -> Base("DatabaseError")
      [] OTHER -> Base("ServiceError")

\* Result<R, E>
Ok(val) == [ok |-> TRUE, val |-> val, err |-> NoError]
Err(err) == [ok |-> FALSE, val |-> "none", err |-> err]
NoResult == [ok |-> FALSE, val |-> "none", err |-> NoError]

\* ------------------------------------------------------------------------
\* Handler registries
\* ------------------------------------------------------------------------

\* TCommandHandler: command type -> the one handler of that type.
command_handler ==
    [c \in {"CreateOrder", "CancelOrder"} |->
        IF c = "CreateOrder" THEN "create_order" ELSE "cancel_order"]

\* TEventHandler: topic -> handlers in registration order.
event_handler ==
    [t \in {"OrderPlaced", "RefundIssued", "OrderShipped"} |->
        CASE t = "OrderPlaced" -> <<"H1", "H2">>
          [] t = "RefundIssued" -> <<"H3">>
          [] t = "OrderShipped" -> <<>>]

\* A lookup that falls back to a default handler for an unknown command.
find_command_default(c) ==
    IF c \in DOMAIN command_handler
    THEN <<command_handler[c]>>
    ELSE <<command_handler["CreateOrder"]>>

\* A lookup whose key is the same for every command type.
find_command_same_key(c) ==
    IF c \in DOMAIN command_handler THEN <<command_handler["CreateOrder"]>> ELSE <<>>

\* self.command_handler.get(&message.type_id()): Option as a sequence of
\* at most one element.
find_command(c) ==
    IF c \in DOMAIN command_handler THEN <<command_handler[c]>> ELSE <<>>

\* A lookup that treats an empty handler list like a missing entry.
find_handlers_nonempty(topic) ==
    IF topic \in DOMAIN event_handler /\ event_handler[topic] # <<>>
    THEN <<event_handler[topic]>>
    ELSE <<>>

\* self.event_handler.get(&msg.metadata().topic)
find_handlers(topic) ==
    IF topic \in DOMAIN event_handler THEN <<event_handler[topic]>> ELSE <<>>

\* An iteration over the handler list from its end (handlers.iter().rev()).
nth_handler_rev(handlers, i) == handlers[Len(handlers) - i + 1]

\* handlers.iter(): the handler the i-th turn of the for loop calls.
nth_handler(handlers, i) == handlers[i]

\* A handle that reduces the command handler's error to its base signal
\* before returning it.
try_command_reduced(out) ==
    IF out.ok
    THEN [pc |-> "event_handling_loop", res |-> out.val, ret |-> NoResult]
    ELSE [pc |-> "done", res |-> "none", ret |-> Err(FromBaseError(IntoBaseError(out.err)))]

\* A handle that drains the queue also after the command handler failed.
try_command_drain(out) ==
    IF out.ok
    THEN [pc |-> "event_handling_loop", res |-> out.val, ret |-> NoResult]
    ELSE [pc |-> "event_handling_loop", res |-> "none", ret |-> Err(out.err)]

\* A handle that takes a stop sentinel of the command handler for a signal
\* to go on, as handle_event does.
try_command_sentinel(out) ==
    IF out.ok \/ IntoBaseError(out.err).signal \in {"StopSentinel", "StopSentinelWithEvent"}
    THEN [pc |-> "event_handling_loop", res |-> out.val, ret |-> NoResult]
    ELSE [pc |-> "done", res |-> "none", ret |-> Err(out.err)]

\* `.await?` on the command handler's result: an error leaves handle at
\* once, a success value is kept in res.
try_command(out) ==
    IF out.ok
    THEN [pc |-> "event_handling_loop", res |-> out.val, ret |-> NoResult]
    ELSE [pc |-> "done", res |-> "none", ret |-> Err(out.err)]

\* A handle that hands handle_event's error to its caller
\* (`self.handle_event(..).await?`).
event_err_propagate(r, err) == [pc |-> "done", ret |-> Err(err)]

\* A handle that leaves the loop at the first handle_event error.
event_err_break(r, err) == [pc |-> "done", ret |-> Ok(r)]

\* `if let Err(err) = self.handle_event(..)`: the error is printed and the
\* loop goes on; r is handle's res.
event_err(r, err) == [pc |-> "event_handling_loop", ret |-> NoResult]

\* The end of 'event_handling_loop: Ok(res).
loop_end(r) == Ok(r)

\* Events the second call may create.
PeerMaxEvents == 2

\* A context kept in one place for all calls of handle.
ContextManager_shared(call) == "shared"

\* Queue length up to which event handlers go on pushing events once the
\* count of created events no longer bounds them.
MaxQueue == 2

\* ContextManager::new: a context of its own for the call that makes it.
ContextManager_new(call) == call

\* context_manager.clone(): another handle to the same context.
context_clone(context) == context

\* A write guard bound to a variable of the loop body, which lives on
\* through the calls the body makes.
write_guard_held(statement) == "bus"

\* The write guard of `context_manager.write().await.<statement>` is a
\* temporary: it is dropped at the end of the statement.
write_guard(statement) == "free"

\* Message::message_clone: a boxed copy of the message, field by field.
message_clone(m) == [topic |-> m.topic, id |-> m.id]

\* A queue whose push puts the event at the front.
push_front(q, e) == <<e>> \o q

\* VecDeque::push_back on the context's event_queue.
push_back(q, e) == Append(q, e)

\* A pop that takes the front element and empties the queue.
pop_front_clear(q) ==
    IF q = <<>>
    THEN [some |-> FALSE, event |-> NoEvent, queue |-> q]
    ELSE [some |-> TRUE, event |-> Head(q), queue |-> <<>>]

\* A pop that reads the front element and leaves it in the queue.
pop_front_peek(q) ==
    IF q = <<>>
    THEN [some |-> FALSE, event |-> NoEvent, queue |-> q]
    ELSE [some |-> TRUE, event |-> Head(q), queue |-> q]

\* VecDeque::pop_front: None on an empty queue, else the front element and
\* the queue without it.
pop_front(q) ==
    IF q = <<>>
    THEN [some |-> FALSE, event |-> NoEvent, queue |-> q]
    ELSE [some |-> TRUE, event |-> Head(q), queue |-> Tail(q)]

\* A match whose catch-all arm breaks out of the handler list.
handler_match_abort(out, q) ==
    LET err == IntoBaseError(out.err) IN
    IF out.ok
    THEN [brk |-> FALSE, queue |-> q]
    ELSE CASE err.signal = "StopSentinelWithEvent" ->
                [brk |-> TRUE, queue |-> push_back(q, err.event)]
           [] OTHER ->
                [brk |-> TRUE, queue |-> q]

\* A match whose StopSentinel arm lacks the break.
handler_match_no_break(out, q) ==
    LET err == IntoBaseError(out.err) IN
    IF out.ok
    THEN [brk |-> FALSE, queue |-> q]
    ELSE CASE err.signal = "StopSentinelWithEvent" ->
                [brk |-> TRUE, queue |-> push_back(q, err.event)]
           [] OTHER ->
                [brk |-> FALSE, queue |-> q]

\* A match whose StopSentinelWithEvent arm lacks the push.
handler_match_no_push(out, q) ==
    LET err == IntoBaseError(out.err) IN
    IF out.ok
    THEN [brk |-> FALSE, queue |-> q]
    ELSE CASE err.signal \in {"StopSentinel", "StopSentinelWithEvent"} ->
                [brk |-> TRUE, queue |-> q]
           [] OTHER ->
                [brk |-> FALSE, queue |-> q]

\* The match on a handler's result in handle_event: whether the for loop
\* breaks, and the queue afterwards.
handler_match(out, q) ==
    LET err == IntoBaseError(out.err) IN
    IF out.ok
    THEN [brk |-> FALSE, queue |-> q]
    ELSE CASE err.signal = "StopSentinel" ->
                [brk |-> TRUE, queue |-> q]
           [] err.signal = "StopSentinelWithEvent" ->
                [brk |-> TRUE, queue |-> push_back(q, err.event)]
           [] OTHER ->
                [brk |-> FALSE, queue |-> q]

\* ------------------------------------------------------------------------
\* What application handlers may return
\* ------------------------------------------------------------------------

\* Errors a handler returns without creating an event.
PlainErrors ==
    { App("StopSentinel"), App("DatabaseError"), App("Custom"),
      AppBaseError(Base("EventNotFound")) }

VARIABLES
    pc,           \* where the call of handle is
    message,      \* the command given to handle
    ctx,          \* the context handle made for this call
    event_queue,  \* ContextManager.event_queue of this call
    lock,         \* who holds the write guard of the context's RwLock
    res,          \* handle's local res: the command handler's success value
    ret,          \* what handle returned to the caller
    msg,          \* handle_event's msg: the event being dispatched
    idx,          \* position of handlers.iter() in the handler list
    arg,          \* what the last called event handler was given
    nid,          \* events created for the queue so far in this call
    \* Observations of the call, written by the actions and read by none:
    calls,        \* command handlers invoked, in order
    cmd_out,      \* what the command handler completed with
    dispatched,   \* events popped from the queue, in order
    invoked,      \* event handler invocations of the call, in order
    outs,         \* what the handlers of the last popped event completed with
    raised,       \* events handlers returned in a StopSentinelWithEvent, each
                  \* with the event whose handler returned it
    not_found,    \* events handle printed EventNotFound for
    \* A second call of handle on the same bus, running at the same time:
    peer_pc,          \* where the second call is
    peer_ctx,         \* the context handle made for the second call
    peer_queue,       \* ContextManager.event_queue of the second call
    peer_nid,         \* events created in the second call so far
    peer_dispatched   \* events the second call popped, in order

seen == <<calls, cmd_out, dispatched, invoked, outs, raised, not_found>>
peer == <<peer_pc, peer_ctx, peer_queue, peer_nid, peer_dispatched>>
vars == <<pc, message, ctx, event_queue, lock, res, ret, msg, idx, arg, nid,
          calls, cmd_out, dispatched, invoked, outs, raised, not_found,
          peer_pc, peer_ctx, peer_queue, peer_nid, peer_dispatched>>

\* The event a handler's result carries in a StopSentinelWithEvent, if any.
SentinelEvent(out) ==
    IF out.err.variant = "StopSentinelWithEvent" THEN {out.err.event} ELSE {}

Invocation(event, handler) == [event |-> event, handler |-> handler]

\* What a handler is called with: its own message, the context handle, and
\* whether an earlier handler of the same event changed its message.
Arg(event, context, after) == [event |-> event, ctx |-> context, after |-> after]
NoArg == Arg(NoEvent, "none", FALSE)

\* Events created in a call, counted up to one more than MaxEvents.
count_event(n) == IF n <= MaxEvents THEN n + 1 ELSE n

Init ==
    /\ pc = "idle"
    /\ message = "none"
    /\ ctx = "none"
    /\ event_queue = <<>>
    /\ lock = "free"
    /\ res = "none"
    /\ ret = NoResult
    /\ msg = NoEvent
    /\ idx = 0
    /\ arg = NoArg
    /\ nid = 0
    /\ calls = <<>>
    /\ cmd_out = NoResult
    /\ dispatched = <<>>
    /\ invoked = <<>>
    /\ outs = <<>>
    /\ raised = {}
    /\ not_found = {}
    /\ peer_pc = "idle"
    /\ peer_ctx = "none"
    /\ peer_queue = <<>>
    /\ peer_nid = 0
    /\ peer_dispatched = <<>>

\* handle, up to the first await: a fresh context, the registry lookup, and
\* either the CommandNotFound return or the call of the command handler.
handle(c) ==
    /\ UNCHANGED peer
    /\ pc \in {"idle", "done"}
    /\ message' = c
    /\ ctx' = ContextManager_new("handle")
    /\ event_queue' = <<>>
    /\ lock' = "free"
    /\ res' = "none"
    /\ msg' = NoEvent
    /\ idx' = 0
    /\ arg' = NoArg
    /\ nid' = 0
    /\ cmd_out' = NoResult
    /\ dispatched' = <<>>
    /\ invoked' = <<>>
    /\ outs' = <<>>
    /\ raised' = {}
    /\ not_found' = {}
    /\ IF find_command(c) # <<>>
       THEN /\ pc' = "command_handler"
            /\ ret' = NoResult
            /\ calls' = <<find_command(c)[1]>>
       ELSE /\ pc' = "done"
            /\ ret' = Err(FromBaseError(Base("CommandNotFound")))
            /\ calls' = <<>>

\* The running command handler pushes an event into the shared context,
\* under a write guard of its own.
command_handler_push(t) ==
    /\ UNCHANGED peer
    /\ pc = "command_handler"
    /\ nid < MaxEvents
    /\ lock = "free"
    /\ event_queue' = push_back(event_queue, [topic |-> t, id |-> nid + 1])
    /\ nid' = nid + 1
    /\ UNCHANGED <<pc, message, ctx, lock, res, ret, msg, idx, arg>>
    /\ UNCHANGED seen

\* The command handler completes with out; `.await?` returns its error to
\* the caller or keeps its success value in res.
command_handler_return(out) ==
    /\ UNCHANGED peer
    /\ pc = "command_handler"
    /\ cmd_out' = out
    /\ pc' = try_command(out).pc
    /\ res' = try_command(out).res
    /\ ret' = try_command(out).ret
    /\ UNCHANGED <<message, ctx, event_queue, lock, msg, idx, arg, nid>>
    /\ UNCHANGED <<calls, dispatched, invoked, outs, raised, not_found>>

\* A drain loop that does not await handle_event: it pops the next event
\* while the handlers of the last one are still being called.
pop_step_eager ==
    /\ UNCHANGED peer
    /\ pc \in {"event_handling_loop", "handlers", "event_handler"}
    /\ lock = "free"
    /\ lock' = write_guard("pop_front")
    /\ LET event == pop_front(event_queue) IN
        /\ event_queue' = event.queue
        /\ IF event.some
           THEN /\ msg' = event.event
                /\ pc' = "handle_event"
                /\ ret' = ret
           ELSE /\ msg' = msg
                /\ pc' = "done"
                /\ ret' = loop_end(res)
    /\ arg' = NoArg
    /\ UNCHANGED <<message, ctx, res, idx, nid>>

\* One turn of 'event_handling_loop, the bus's variables: under the write
\* guard, pop the front of the queue; an empty queue ends the loop and
\* handle returns Ok(res).
pop_step ==
    /\ UNCHANGED peer
    /\ pc = "event_handling_loop"
    /\ lock = "free"
    /\ lock' = write_guard("pop_front")
    /\ LET event == pop_front(event_queue) IN
        /\ event_queue' = event.queue
        /\ IF event.some
           THEN /\ msg' = event.event
                /\ pc' = "handle_event"
                /\ ret' = ret
           ELSE /\ msg' = msg
                /\ pc' = "done"
                /\ ret' = loop_end(res)
    /\ arg' = NoArg
    /\ UNCHANGED <<message, ctx, res, idx, nid>>

\* One turn of 'event_handling_loop.
event_handling_loop ==
    /\ pop_step
    /\ IF pop_front(event_queue).some
       THEN /\ dispatched' = Append(dispatched, pop_front(event_queue).event)
            /\ outs' = <<>>
       ELSE UNCHANGED <<dispatched, outs>>
    /\ UNCHANGED <<calls, cmd_out, invoked, raised, not_found>>

\* handle_event's lookup of the handlers of msg's topic, the bus's
\* variables; a missing topic makes handle_event return EventNotFound,
\* which handle prints and drops.
lookup_step ==
    /\ UNCHANGED peer
    /\ pc = "handle_event"
    /\ IF find_handlers(msg.topic) # <<>>
       THEN /\ pc' = "handlers"
            /\ idx' = 1
            /\ UNCHANGED <<msg, ret>>
       ELSE LET err == FromBaseError(Base("EventNotFound")) IN
            /\ pc' = event_err(res, err).pc
            /\ ret' = event_err(res, err).ret
            /\ idx' = 0
            /\ msg' = NoEvent
    /\ UNCHANGED <<message, ctx, event_queue, lock, res, arg, nid>>

\* handle_event's lookup of the handlers of msg's topic.
handle_event ==
    /\ lookup_step
    /\ not_found' = IF find_handlers(msg.topic) # <<>> THEN not_found ELSE not_found \cup {msg}
    /\ UNCHANGED <<calls, cmd_out, dispatched, invoked, outs, raised>>

\* A for loop that hands every handler the same boxed message instead of a
\* clone: a handler receives what the handler before it left.
iter_step_shared ==
    /\ UNCHANGED peer
    /\ pc = "handlers"
    /\ IF idx <= Len(find_handlers(msg.topic)[1])
       THEN /\ pc' = "event_handler"
            /\ arg' = Arg(IF arg.event = NoEvent THEN msg ELSE arg.event, context_clone(ctx),
                          arg.after \/ arg.event \notin {NoEvent, msg})
            /\ UNCHANGED <<msg, idx>>
       ELSE /\ pc' = "event_handling_loop"
            /\ msg' = NoEvent
            /\ idx' = 0
            /\ arg' = NoArg
    /\ UNCHANGED <<message, ctx, event_queue, lock, res, ret, nid>>

\* for handler in handlers.iter(), the bus's variables: call the next
\* handler with a clone of msg and a clone of the context handle, or leave
\* handle_event with Ok(()) at the end of the list.
iter_step ==
    /\ UNCHANGED peer
    /\ pc = "handlers"
    /\ IF idx <= Len(find_handlers(msg.topic)[1])
       THEN /\ pc' = "event_handler"
            /\ arg' = Arg(message_clone(msg), context_clone(ctx),
                          arg.after \/ arg.event \notin {NoEvent, msg})
            /\ UNCHANGED <<msg, idx>>
       ELSE /\ pc' = "event_handling_loop"
            /\ msg' = NoEvent
            /\ idx' = 0
            /\ arg' = NoArg
    /\ UNCHANGED <<message, ctx, event_queue, lock, res, ret, nid>>

\* for handler in handlers.iter().
handlers_iter ==
    /\ iter_step
    /\ invoked' =
        IF idx <= Len(find_handlers(msg.topic)[1])
        THEN Append(invoked, Invocation(arg'.event, nth_handler(find_handlers(msg.topic)[1], idx)))
        ELSE invoked
    /\ UNCHANGED <<calls, cmd_out, dispatched, outs, raised, not_found>>

\* The running event handler pushes an event into the context it was
\* given, under a write guard of its own; the bus's variables.
push_step(t) ==
    /\ UNCHANGED peer
    /\ pc = "event_handler"
    /\ lock = "free"
    /\ arg.ctx = ctx
    /\ event_queue' = push_back(event_queue, [topic |-> t, id |-> count_event(nid)])
    /\ nid' = count_event(nid)
    /\ UNCHANGED <<pc, message, ctx, lock, res, ret, msg, idx, arg>>

\* The running event handler pushes an event into the shared context.
event_handler_push(t) ==
    /\ nid < MaxEvents
    /\ push_step(t)
    /\ UNCHANGED seen

\* The running event handler changes the message it was given.
event_handler_change ==
    /\ UNCHANGED peer
    /\ pc = "event_handler"
    /\ arg.event = msg
    /\ arg' = [arg EXCEPT !.event = [topic |-> "Changed", id |-> msg.id]]
    /\ UNCHANGED <<pc, message, ctx, event_queue, lock, res, ret, msg, idx, nid>>
    /\ UNCHANGED seen

\* The event handler completes with out and handle_event matches on it,
\* the bus's variables: Ok and ordinary errors go on with the next handler,
\* the two sentinels break out of the handler list, the second after
\* pushing its event under the write guard.
return_step(out) ==
    /\ UNCHANGED peer
    /\ pc = "event_handler"
    /\ nid' = IF SentinelEvent(out) = {} THEN nid ELSE count_event(nid)
    /\ LET m == handler_match(out, event_queue) IN
        /\ event_queue' = m.queue
        /\ IF m.queue = event_queue
           THEN lock' = lock
           ELSE lock = "free" /\ lock' = write_guard("push_back")
        /\ IF m.brk
           THEN /\ pc' = "event_handling_loop"
                /\ idx' = 0
                /\ msg' = NoEvent
           ELSE /\ pc' = "handlers"
                /\ idx' = idx + 1
                /\ msg' = msg
    /\ UNCHANGED <<message, ctx, res, ret, arg>>

\* The event handler completes with out and handle_event matches on it.
event_handler_return(out) ==
    /\ return_step(out)
    /\ outs' = Append(outs, out)
    /\ raised' = raised \cup {[event |-> e, cause |-> msg] : e \in SentinelEvent(out)}
    /\ UNCHANGED <<calls, cmd_out, dispatched, invoked, not_found>>

\* The event a handler creates for a StopSentinelWithEvent.
SentinelEvents == {[topic |-> t, id |-> count_event(nid)] : t \in Topics}

\* Results a command handler may complete with.
CommandResults ==
    {Ok(r) : r \in Responses}
    \cup {Err(e) : e \in PlainErrors}
    \cup {Err(AppStopSentinelWithEvent(e)) : e \in SentinelEvents}

\* Results an event handler may complete with.
EventResults ==
    {Ok("none")}
    \cup {Err(e) : e \in PlainErrors}
    \cup (IF nid < MaxEvents
          THEN {Err(AppStopSentinelWithEvent(e)) : e \in SentinelEvents}
          ELSE {})

Next ==
    \/ \E c \in Commands : handle(c)
    \/ \E t \in Topics : command_handler_push(t)
    \/ \E out \in CommandResults : command_handler_return(out)
    \/ event_handling_loop
    \/ handle_event
    \/ handlers_iter
    \/ \E t \in Topics : event_handler_push(t)
    \/ event_handler_change
    \/ \E out \in EventResults : event_handler_return(out)

Spec == Init /\ [][Next]_vars

\* ------------------------------------------------------------------------
\* Properties
\* ------------------------------------------------------------------------

\* The reduced form of a handler's result is one of the two stop sentinels.
IsSentinel(out) ==
    /\ ~out.ok
    /\ IntoBaseError(out.err).signal \in {"StopSentinel", "StopSentinelWithEvent"}

\* A handler's result is an error that is not a stop sentinel.
IsOrdinaryError(out) == ~out.ok /\ ~IsSentinel(out)

\* ------------------------------------------------------------------------
\* Two calls of handle on one bus
\* ------------------------------------------------------------------------

\* The queue behind the second call's context handle.
peer_context == IF peer_ctx = ctx THEN event_queue ELSE peer_queue

\* The second call's context gets queue q.
peer_write(q) ==
    IF peer_ctx = ctx
    THEN event_queue' = q /\ peer_queue' = peer_queue
    ELSE peer_queue' = q /\ event_queue' = event_queue

\* The second call of handle, up to the call of its command handler.
peer_handle ==
    /\ peer_pc \in {"idle", "done"}
    /\ peer_ctx' = ContextManager_new("peer")
    /\ peer_queue' = <<>>
    /\ peer_nid' = 0
    /\ peer_dispatched' = <<>>
    /\ peer_pc' = "command_handler"
    /\ UNCHANGED <<pc, message, ctx, event_queue, lock, res, ret, msg, idx, arg, nid>>
    /\ UNCHANGED seen

\* A handler of the second call pushes an event into the context it was
\* given; the second call's events have negative ids.
peer_push(t) ==
    /\ peer_pc \in {"command_handler", "event_handler"}
    /\ peer_nid < PeerMaxEvents
    /\ peer_write(push_back(peer_context, [topic |-> t, id |-> 0 - (peer_nid + 1)]))
    /\ peer_nid' = peer_nid + 1
    /\ UNCHANGED <<peer_pc, peer_ctx, peer_dispatched>>
    /\ UNCHANGED <<pc, message, ctx, lock, res, ret, msg, idx, arg, nid>>
    /\ UNCHANGED seen

\* The second call's command handler completes: `.await?` returns its
\* error or goes on to the drain loop.
peer_command_return(ok) ==
    /\ peer_pc = "command_handler"
    /\ peer_pc' = IF ok THEN "event_handling_loop" ELSE "done"
    /\ UNCHANGED <<peer_ctx, peer_queue, peer_nid, peer_dispatched>>
    /\ UNCHANGED <<pc, message, ctx, event_queue, lock, res, ret, msg, idx, arg, nid>>
    /\ UNCHANGED seen

\* One turn of the second call's 'event_handling_loop: pop the front of its
\* context's queue and dispatch it, or return on an empty queue.
peer_loop ==
    /\ peer_pc = "event_handling_loop"
    /\ LET event == pop_front(peer_context) IN
        /\ peer_write(event.queue)
        /\ IF event.some
           THEN /\ peer_dispatched' = Append(peer_dispatched, event.event)
                /\ peer_pc' = "event_handler"
           ELSE /\ peer_dispatched' = peer_dispatched
                /\ peer_pc' = "done"
    /\ UNCHANGED <<peer_ctx, peer_nid>>
    /\ UNCHANGED <<pc, message, ctx, lock, res, ret, msg, idx, arg, nid>>
    /\ UNCHANGED seen

\* The handlers of the second call's popped event have completed.
peer_event_return ==
    /\ peer_pc = "event_handler"
    /\ peer_pc' = "event_handling_loop"
    /\ UNCHANGED <<peer_ctx, peer_queue, peer_nid, peer_dispatched>>
    /\ UNCHANGED <<pc, message, ctx, event_queue, lock, res, ret, msg, idx, arg, nid>>
    /\ UNCHANGED seen

\* Topics of the events the handlers of two concurrent calls create.
PeerTopics == {"OrderPlaced", "GhostEvent"}

\* Results the event handlers of two concurrent calls complete with.
PeerResults == {Ok("none"), Err(App("StopSentinel"))}

ConcurrentNext ==
    \/ \E c \in Commands : handle(c)
    \/ \E t \in PeerTopics : command_handler_push(t)
    \/ \E out \in {Ok("OrderCreated"), Err(App("Custom"))} : command_handler_return(out)
    \/ event_handling_loop
    \/ handle_event
    \/ handlers_iter
    \/ \E t \in PeerTopics : event_handler_push(t)
    \/ \E out \in PeerResults : event_handler_return(out)
    \/ peer_handle
    \/ \E t \in PeerTopics : peer_push(t)
    \/ \E ok \in BOOLEAN : peer_command_return(ok)
    \/ peer_loop
    \/ peer_event_return

ConcurrentSpec == Init /\ [][ConcurrentNext]_vars

\* ------------------------------------------------------------------------
\* The drain loop with handlers that create events without end
\* ------------------------------------------------------------------------

\* One turn of 'event_handling_loop.
drain_loop == pop_step /\ UNCHANGED seen

\* handle_event's lookup of the handlers of msg's topic.
drain_lookup == lookup_step /\ UNCHANGED seen

\* for handler in handlers.iter().
drain_iter == iter_step /\ UNCHANGED seen

\* The running event handler pushes an event into the shared context; a
\* handler call pushes a bounded number of events.
drain_push(t) ==
    /\ Len(event_queue) < MaxQueue
    /\ push_step(t)
    /\ UNCHANGED seen

\* The event handler completes with out and handle_event matches on it.
drain_return(out) == return_step(out) /\ UNCHANGED seen

\* Topics of the events handlers create in the drain loop.
DrainTopics == {"OrderPlaced", "GhostEvent"}

\* Results an event handler may complete with in the drain loop.
DrainResults ==
    {Ok("none"), Err(App("StopSentinel")), Err(App("Custom"))}
    \cup (IF Len(event_queue) < MaxQueue
          THEN {Err(AppStopSentinelWithEvent([topic |-> t, id |-> count_event(nid)])) : t \in DrainTopics}
          ELSE {})

DrainNext ==
    \/ \E c \in Commands : handle(c)
    \/ \E t \in DrainTopics : command_handler_push(t)
    \/ \E out \in CommandResults : command_handler_return(out)
    \/ drain_loop
    \/ drain_lookup
    \/ drain_iter
    \/ \E t \in DrainTopics : drain_push(t)
    \/ \E out \in DrainResults : drain_return(out)

\* Every handler call completes and the bus, once scheduled, takes its
\* next step.
DrainFairness ==
    /\ WF_vars(\E out \in CommandResults : command_handler_return(out))
    /\ WF_vars(\E out \in DrainResults : drain_return(out))
    /\ WF_vars(drain_loop)
    /\ WF_vars(drain_lookup)
    /\ WF_vars(drain_iter)

DrainSpec == Init /\ [][DrainNext]_vars /\ DrainFairness

\* C1: when the command handler of a registered command returns the success
\* value r, handle returns exactly Ok(r), and returns nothing before the
\* queue is drained, whatever the event handlers did.
C1_SuccessReturned ==
    cmd_out.ok => (IF pc = "done" THEN ret = cmd_out ELSE ret = NoResult)

\* handle has returned the command handler's success value after a dispatch
\* with an unregistered topic, a StopSentinelWithEvent and an ordinary error.
C1_Witness ==
    /\ pc = "done"
    /\ cmd_out.ok
    /\ ret = cmd_out
    /\ not_found # {}
    /\ raised # {}
    /\ \E i \in DOMAIN outs : IsOrdinaryError(outs[i])

\* C2: for a registered command handle returns an error only when the
\* command handler failed, and then exactly the command handler's error.
C2_CommandErrorReturned ==
    (pc = "done" /\ message \in DOMAIN command_handler) =>
        /\ ~cmd_out.ok => ret = cmd_out
        /\ ~ret.ok => (~cmd_out.ok /\ ret.err = cmd_out.err)

\* The command handler pushed an event and failed with an error of the
\* application's own, which handle returned.
C2_Witness ==
    /\ pc = "done"
    /\ message \in DOMAIN command_handler
    /\ cmd_out = Err(App("Custom"))
    /\ ret = Err(App("Custom"))
    /\ event_queue # <<>>

\* C3: for a command without registry entry handle fails with
\* CommandNotFound, calls no command handler, pops no event and calls no
\* event handler.
C3_CommandNotFound ==
    (pc # "idle" /\ message \notin DOMAIN command_handler) =>
        /\ pc = "done"
        /\ ret = Err(AppBaseError(Base("CommandNotFound")))
        /\ calls = <<>>
        /\ dispatched = <<>>
        /\ invoked = <<>>

\* handle has returned for the unregistered command.
C3_Witness ==
    /\ pc = "done"
    /\ message = "Unregistered"
    /\ ~ret.ok
    /\ ret.err.base.signal = "CommandNotFound"

\* C4: one call of handle on a registered command calls the handler
\* registered for the command's type, once, and no other command handler,
\* also after the handler failed or event handlers failed.
C4_OneCommandHandler ==
    (pc # "idle" /\ message \in DOMAIN command_handler) =>
        calls = <<command_handler[message]>>

\* handle has returned for CancelOrder after an event handler failed.
C4_Witness ==
    /\ pc = "done"
    /\ message = "CancelOrder"
    /\ calls = <<"cancel_order">>
    /\ \E i \in DOMAIN outs : IsOrdinaryError(outs[i])

\* The events popped so far followed by the events still queued.
AllEvents == dispatched \o event_queue

\* The handlers called for event e, in the order of their calls.
Ran(e) ==
    LET of_e == SelectSeq(invoked, LAMBDA i : i.event = e)
    IN [k \in DOMAIN of_e |-> of_e[k].handler]

\* The handler list registered for a topic; empty for an unknown topic.
Registered(topic) ==
    IF topic \in DOMAIN event_handler THEN event_handler[topic] ELSE <<>>

\* The last popped event.
Last == dispatched[Len(dispatched)]

\* The dispatch of the last popped event is over.
LastOver == pc \in {"event_handling_loop", "done"}

\* The step is the return of an event handler with result out.
Returns(out) ==
    /\ pc = "event_handler"
    /\ outs' = Append(outs, out)

\* handle has returned Ok with every created event popped.
Drained ==
    (pc = "done" /\ ret.ok) => (event_queue = <<>> /\ Len(dispatched) = nid)

\* C5: events are dispatched in the order of their pushes (ids count the
\* pushes): the popped events followed by the queued ones are events
\* 1, 2, 3, ..; handlers are called only for the last popped event, so
\* every call for an earlier pushed event precedes every call for a later one.
C5_Fifo ==
    /\ \A i \in DOMAIN AllEvents : AllEvents[i].id = i
    /\ \A i \in DOMAIN invoked :
        /\ \E k \in DOMAIN dispatched : dispatched[k] = invoked[i].event
        /\ \A j \in DOMAIN invoked : i < j => invoked[i].event.id <= invoked[j].event.id
    /\ pc = "event_handler" => invoked[Len(invoked)].event = Last

\* The call is over with three events dispatched, the third pushed by the
\* bus for a handler of the first while the second was queued, and a
\* handler called for the third.
C5_Witness ==
    /\ pc = "done"
    /\ Len(dispatched) = 3
    /\ \E r \in raised : r.event.id = 3 /\ r.cause.id = 1
    /\ invoked # <<>>
    /\ invoked[Len(invoked)].event.id = 3
    /\ invoked[1].event.id = 1

\* C6: the handlers called for a popped event are a prefix of the list
\* registered for its topic, in registration order, and the whole list once
\* the dispatch is over unless the last called handler returned a stop
\* sentinel.
C6_RegistrationOrder ==
    /\ \A k \in DOMAIN dispatched :
        LET ran == Ran(dispatched[k])
            reg == Registered(dispatched[k].topic)
        IN /\ Len(ran) <= Len(reg)
           /\ ran = SubSeq(reg, 1, Len(ran))
    /\ (dispatched # <<>> /\ LastOver) =>
        /\ Len(outs) = Len(Ran(Last))
        /\ \/ Len(Ran(Last)) = Len(Registered(Last.topic))
           \/ outs # <<>> /\ IsSentinel(outs[Len(outs)])

\* The dispatch of an OrderPlaced is over with H1 and H2 called in this
\* order, H1 having failed with an ordinary error.
C6_Witness ==
    /\ LastOver
    /\ dispatched # <<>>
    /\ Last.topic = "OrderPlaced"
    /\ Ran(Last) = <<"H1", "H2">>
    /\ IsOrdinaryError(outs[1])
    /\ ~IsSentinel(outs[2])

\* A handler's ordinary error leaves the queue as it is and goes on with
\* the next handler of the same event.
C7_Step ==
    \A out \in {Err(e) : e \in PlainErrors} :
        (Returns(out) /\ IsOrdinaryError(out)) =>
            /\ event_queue' = event_queue
            /\ pc' = "handlers"
            /\ msg' = msg
            /\ idx' = idx + 1

\* After a handler's ordinary error the next handler registered for the
\* event is called, and no event is left in the queue when handle returns.
C7_State ==
    /\ Drained
    /\ dispatched # <<>> =>
        \A i \in DOMAIN outs :
            (IsOrdinaryError(outs[i]) /\ i < Len(Registered(Last.topic))) =>
                \/ pc = "handlers" /\ idx = i + 1
                \/ Len(Ran(Last)) > i

\* C7: an event handler's error that is no stop sentinel stops neither the
\* later handlers of the same event nor the events still queued, and the
\* bus does not change the queue for it.
C7_OrdinaryErrorContained == [][C7_Step]_vars /\ []C7_State

\* H2 runs after H1 failed with an ordinary error, an event still queued.
C7_Witness ==
    /\ pc = "event_handler"
    /\ idx = 2
    /\ IsOrdinaryError(outs[1])
    /\ event_queue # <<>>

\* A handler's StopSentinel leaves the queue as it is and goes back to the
\* drain loop.
C8_Step ==
    Returns(Err(App("StopSentinel"))) =>
        /\ event_queue' = event_queue
        /\ pc' = "event_handling_loop"

\* After a StopSentinel no further handler is called for the event, and no
\* event is left in the queue when handle returns.
C8_State ==
    /\ Drained
    /\ \A i \in DOMAIN outs :
        outs[i] = Err(App("StopSentinel")) =>
            /\ i = Len(outs)
            /\ Len(Ran(Last)) = i
            /\ LastOver

\* C8: a handler's StopSentinel ends the handler list of its own event
\* only: no later handler of the event is called, the bus appends nothing,
\* and the drain loop goes on until the queue is empty.
C8_StopSentinel == [][C8_Step]_vars /\ []C8_State

\* CreateOrder's handler pushed OrderPlaced and returned OrderCreated, H1
\* succeeded, H2 returned StopSentinel, and handle returned OrderCreated.
C8_Witness ==
    /\ pc = "done"
    /\ message = "CreateOrder"
    /\ ret = Ok("OrderCreated")
    /\ dispatched = <<[topic |-> "OrderPlaced", id |-> 1]>>
    /\ Ran(Last) = <<"H1", "H2">>
    /\ outs = <<Ok("none"), Err(App("StopSentinel"))>>

\* A handler's StopSentinelWithEvent(E) appends E to the tail of the queue
\* and goes back to the drain loop.
C9_Step ==
    \A e \in {[topic |-> t, id |-> nid + 1] : t \in Topics} :
        Returns(Err(AppStopSentinelWithEvent(e))) =>
            /\ event_queue' = Append(event_queue, e)
            /\ pc' = "event_handling_loop"

\* An event returned in a StopSentinelWithEvent ends the handler list of
\* the event it was returned for, is once among the popped and queued
\* events, behind the events created before it, and has been popped and
\* given to the lookup of its own topic when handle returns.
C9_State ==
    /\ \A i \in DOMAIN outs :
        SentinelEvent(outs[i]) # {} =>
            /\ i = Len(outs)
            /\ Len(Ran(Last)) = i
            /\ LastOver
    /\ \A r \in raised :
        /\ Cardinality({i \in DOMAIN AllEvents : AllEvents[i] = r.event}) = 1
        /\ AllEvents[r.event.id] = r.event
        /\ r.cause.id < r.event.id
        /\ Ran(r.event) # <<>> => Ran(r.event)[1] = Registered(r.event.topic)[1]
        /\ pc = "done" =>
            /\ \E k \in DOMAIN dispatched : dispatched[k] = r.event
            /\ IF r.event.topic \in DOMAIN event_handler
               THEN Registered(r.event.topic) # <<>> => Ran(r.event) # <<>>
               ELSE r.event \in not_found

\* C9: a handler's StopSentinelWithEvent(E) ends the handler list of its
\* own event, appends E once to the tail of the queue, and E is popped and
\* dispatched by its own topic, after the events queued before it and
\* before handle returns.
C9_StopSentinelWithEvent == [][C9_Step]_vars /\ []C9_State

\* handle has returned after a handler of the first event, an OrderPlaced,
\* returned StopSentinelWithEvent(RefundIssued) while the second event was
\* queued, and RefundIssued was dispatched to H3 as the third event.
C9_Witness ==
    /\ pc = "done"
    /\ \E r \in raised :
        /\ r.cause = [topic |-> "OrderPlaced", id |-> 1]
        /\ r.event = [topic |-> "RefundIssued", id |-> 3]
        /\ dispatched[3] = r.event
        /\ Ran(r.event) = <<"H3">>

\* C10: an event whose topic has no registry entry gets no handler call,
\* EventNotFound is printed for it and for no event with a registered
\* topic, the drain loop goes on to the end of the queue, and handle
\* returns the command handler's success value.
C10_EventNotFound ==
    /\ \A k \in DOMAIN dispatched :
        LET e == dispatched[k] IN
        e.topic \notin DOMAIN event_handler =>
            /\ Ran(e) = <<>>
            /\ (k < Len(dispatched) \/ pc # "handle_event") => e \in not_found
    /\ \A e \in not_found : e.topic \notin DOMAIN event_handler
    /\ not_found # {} =>
        /\ cmd_out.ok
        /\ IF pc = "done"
           THEN ret = Ok(cmd_out.val) /\ event_queue = <<>> /\ Len(dispatched) = nid
           ELSE ret = NoResult

\* handle has returned Ok after a GhostEvent popped first and two more
\* events, the last one with a handler call.
C10_Witness ==
    /\ pc = "done"
    /\ ret.ok
    /\ Len(dispatched) = 3
    /\ dispatched[1].topic = "GhostEvent"
    /\ dispatched[1] \in not_found
    /\ Ran(dispatched[3]) # <<>>

\* The command handler has completed with an error.
CommandFailed == cmd_out # NoResult /\ ~cmd_out.ok

\* handle has returned for a registered command with an empty queue and
\* every created event popped.
C11_DrainedAtEveryReturn ==
    (pc = "done" /\ message \in DOMAIN command_handler) =>
        (event_queue = <<>> /\ Len(dispatched) = nid)

\* C11 (amended): when the command handler succeeded, the queue is empty
\* when handle returns, and every event pushed during the call, by the
\* command handler or by an event handler, has been popped, in the order of
\* the pushes.
C11_DrainedAfterSuccess ==
    (pc = "done" /\ cmd_out.ok) =>
        /\ ret = cmd_out
        /\ event_queue = <<>>
        /\ Len(dispatched) = nid
        /\ \A i \in 1..nid : dispatched[i].id = i

\* handle has returned Ok after three events, none of them pushed by the
\* bus, and handler calls.
C11_Witness ==
    /\ pc = "done"
    /\ cmd_out.ok
    /\ Len(dispatched) = 3
    /\ raised = {}
    /\ invoked # <<>>

\* C18: when the command handler returns an error, handle returns at once:
\* no event is popped, no event handler is called, and the events the
\* command handler pushed stay in the context that handle drops.
C18_FailedCommandSkipsDrain ==
    CommandFailed =>
        /\ pc = "done"
        /\ ret = cmd_out
        /\ dispatched = <<>>
        /\ invoked = <<>>
        /\ not_found = {}
        /\ Len(event_queue) = nid

\* The command handler pushed two events and failed; handle has returned.
C18_Witness ==
    /\ pc = "done"
    /\ cmd_out = Err(App("DatabaseError"))
    /\ Len(event_queue) = 2

\* C19: a StopSentinel or StopSentinelWithEvent(E) of the command handler
\* is an ordinary failure of handle: it is returned to the caller, E is
\* not appended to the queue and nothing is dispatched.
C19_CommandSentinelIsFailure ==
    (cmd_out.err.variant \in {"StopSentinel", "StopSentinelWithEvent"}) =>
        /\ pc = "done"
        /\ ret = cmd_out
        /\ dispatched = <<>>
        /\ invoked = <<>>
        /\ \A e \in SentinelEvent(cmd_out) :
            \A i \in DOMAIN event_queue : event_queue[i] # e

\* The command handler pushed an event and failed with
\* StopSentinelWithEvent(RefundIssued); handle has returned it.
C19_Witness ==
    /\ pc = "done"
    /\ Len(event_queue) = 1
    /\ cmd_out = Err(AppStopSentinelWithEvent([topic |-> "RefundIssued", id |-> 2]))
    /\ ret = cmd_out

\* The base signals the bus has converted into the application error in
\* this call: CommandNotFound for a command without a handler, and
\* EventNotFound for an event without a registry entry.
ConvertedSignals ==
    (IF pc = "done" /\ message # "none" /\ calls = <<>>
     THEN {Base("CommandNotFound")} ELSE {})
    \cup (IF not_found # {} THEN {Base("EventNotFound")} ELSE {})

\* C13: a base signal converted into the application error (From<BaseError>)
\* and back (Into<BaseError>) is the same base signal with the same payload;
\* stated for the signals the bus itself converts.
C13_ConversionLossless ==
    \A b \in ConvertedSignals : IntoBaseError(FromBaseError(b)) = b

\* The command handler has been called and has not completed.
CommandRunning == calls # <<>> /\ cmd_out = NoResult

\* Event handlers called for the last popped event that have not completed.
EventsRunning ==
    IF dispatched = <<>> THEN 0 ELSE Len(Ran(Last)) - Len(outs)

\* The handler list of the last popped event has been run to its end or cut
\* short by a stop sentinel.
LastCompleted ==
    /\ EventsRunning = 0
    /\ \/ Len(outs) = Len(Registered(Last.topic))
       \/ outs # <<>> /\ IsSentinel(outs[Len(outs)])

\* At most one handler of the call is running, and no event is popped or
\* handled while the command handler runs.
C14_State ==
    /\ EventsRunning \in {0, 1}
    /\ CommandRunning => (EventsRunning = 0 /\ dispatched = <<>> /\ invoked = <<>>)
    /\ (pc = "event_handler") = (EventsRunning = 1)
    /\ (pc = "command_handler") = CommandRunning

\* An event is popped only after the command handler has completed with
\* success and the handlers of the event before it have completed; a
\* handler is called only when no other handler is running.
C14_Step ==
    /\ Len(dispatched') > Len(dispatched) =>
        /\ cmd_out.ok
        /\ ~CommandRunning
        /\ dispatched # <<>> => LastCompleted
    /\ Len(invoked') > Len(invoked) =>
        /\ ~CommandRunning
        /\ EventsRunning = 0
        /\ invoked'[Len(invoked')].event = Last

\* C14: within one call of handle at most one handler is running at any
\* time, the command handler has completed before the first event is
\* popped, and the handler calls of a popped event have completed or been
\* cut short by a sentinel before the next event is popped.
C14_Sequential == [][C14_Step]_vars /\ []C14_State

\* The second event has been popped after both handlers of the first one
\* completed, and its handler is running.
C14_Witness ==
    /\ pc = "event_handler"
    /\ Len(dispatched) = 2
    /\ Ran(dispatched[1]) = <<"H1", "H2">>
    /\ Ran(dispatched[2]) = <<"H3">>
    /\ EventsRunning = 1

\* Popped events whose dispatch is over.
Consumed ==
    {dispatched[k] : k \in {j \in DOMAIN dispatched : j < Len(dispatched) \/ LastOver}}

\* C20: an event whose topic is registered with an empty handler list is
\* popped and consumed with no handler call and no EventNotFound, the drain
\* going on behind it; EventNotFound is recorded for a consumed event if and
\* only if its topic has no entry in the event registry.
C20_EmptyHandlerList ==
    /\ \A k \in DOMAIN dispatched :
        (dispatched[k].topic \in DOMAIN event_handler /\ event_handler[dispatched[k].topic] = <<>>) =>
            /\ Ran(dispatched[k]) = <<>>
            /\ dispatched[k] \notin not_found
            /\ (k = Len(dispatched) /\ pc = "done") => (ret = Ok(res) /\ event_queue = <<>>)
    /\ \A e \in Consumed : (e \in not_found) = (e.topic \notin DOMAIN event_handler)
    /\ \A e \in not_found : \E k \in DOMAIN dispatched : dispatched[k] = e

\* An event with an empty handler list was consumed, the event behind it
\* was given to its handler, and handle returned.
C20_Witness ==
    /\ pc = "done"
    /\ Len(dispatched) = 3
    /\ dispatched[1].topic = "OrderShipped"
    /\ dispatched[2].topic = "RefundIssued"
    /\ dispatched[3].topic = "GhostEvent"
    /\ Ran(dispatched[2]) = <<"H3">>
    /\ not_found = {dispatched[3]}

\* C15: the bus holds the write guard of the context's lock for one
\* pop_front or one push_back only: whenever the bus is about to call a
\* handler or a handler is running, the guard is not held by the bus, and a
\* running handler's push into the context is not blocked.
C15_LockReleased ==
    /\ pc \in {"command_handler", "handle_event", "handlers", "event_handler"} => lock = "free"
    /\ (pc = "command_handler" /\ nid < MaxEvents) =>
        \A t \in Topics : ENABLED command_handler_push(t)
    /\ (pc = "event_handler" /\ nid < MaxEvents) =>
        \A t \in Topics : ENABLED event_handler_push(t)

\* The bus has pushed a handler's sentinel event and popped it again, each
\* under its own write guard, and a handler of that event is running and
\* free to push.
C15_Witness ==
    /\ pc = "event_handler"
    /\ \E r \in raised : r.event = msg
    /\ lock = "free"
    /\ nid < MaxEvents
    /\ ENABLED event_handler_push("OrderPlaced")

\* A handler is called with a message equal to the last popped event and
\* with a handle to the context of the call.
C17_Step ==
    Len(invoked') > Len(invoked) =>
        /\ arg'.event = Last
        /\ invoked'[Len(invoked')].event = Last
        /\ arg'.ctx = ctx
        /\ msg' = Last

\* What a handler does to its message changes neither the event the bus
\* holds nor the context handle, and the events handlers were called with
\* are popped events.
C17_State ==
    /\ pc \in {"handlers", "event_handler"} => msg = Last
    /\ pc = "event_handler" => arg.ctx = ctx
    /\ \A i \in DOMAIN invoked : \E k \in DOMAIN dispatched : invoked[i].event = dispatched[k]

\* C17: every handler called for a popped event is given a clone equal to
\* the event as it was popped, whatever an earlier handler of that event
\* did to its own copy, and every handler is given a handle to the one
\* context of the call.
C17_FreshClone == [][C17_Step]_vars /\ []C17_State

\* H2 runs with a message equal to the popped event after H1 changed the
\* message it was given.
C17_Witness ==
    /\ pc = "event_handler"
    /\ idx = 2
    /\ arg.after
    /\ arg.event = Last
    /\ arg.ctx = ctx
    /\ Ran(Last) = <<"H1", "H2">>

\* The events in a sequence of events or of invocations' events.
Ids(q) == {q[i].id : i \in DOMAIN q}

\* C16: each call of handle makes an empty context of its own, so with two
\* calls running at the same time an event pushed in one call is queued in
\* and popped from that call's queue only: the first call's queue, popped
\* events and handler calls hold only its own events (positive ids), in
\* the order of their pushes, the second call's only its own (negative
\* ids), and a call that returns with success has popped all its events.
C16_Isolated ==
    /\ (ctx # "none" /\ peer_ctx # "none") => ctx # peer_ctx
    /\ \A n \in Ids(event_queue) \cup Ids(dispatched) : n > 0
    /\ \A i \in DOMAIN invoked : invoked[i].event.id > 0
    /\ \A n \in Ids(peer_queue) \cup Ids(peer_dispatched) : n < 0
    /\ \A k \in DOMAIN AllEvents : AllEvents[k].id = k
    /\ \A k \in DOMAIN (peer_dispatched \o peer_queue) : (peer_dispatched \o peer_queue)[k].id = 0 - k
    /\ (pc = "command_handler" /\ nid = 0) => event_queue = <<>>
    /\ (peer_pc = "command_handler" /\ peer_nid = 0) => peer_context = <<>>
    /\ (pc = "done" /\ ret.ok) => (Len(dispatched) = nid /\ event_queue = <<>>)
    /\ (peer_pc = "done" /\ peer_dispatched # <<>>) =>
        (Len(peer_dispatched) = peer_nid /\ peer_queue = <<>>)

\* Both calls are dispatching an event of their own while each has another
\* event of its own queued.
C16_Witness ==
    /\ pc = "event_handler"
    /\ peer_pc = "event_handler"
    /\ dispatched = <<[topic |-> "OrderPlaced", id |-> 1]>>
    /\ peer_dispatched = <<[topic |-> "OrderPlaced", id |-> 0 - 1]>>
    /\ event_queue = <<[topic |-> "OrderPlaced", id |-> 2]>>
    /\ peer_queue = <<[topic |-> "GhostEvent", id |-> 0 - 2]>>

\* The drain loop ends whenever every handler call completes and pushes a
\* bounded number of events.
C12_DrainTerminates == (pc = "event_handling_loop") ~> (pc = "done")

\* C12: the drain loop of handle ends, with handle returning from an empty
\* queue, when every handler call completes and no more than MaxEvents
\* events are created in the whole call.
C12_BoundedDrainTerminates ==
    (pc = "event_handling_loop") ~> (pc = "done" \/ nid > MaxEvents)

\* handle returned from the drain loop after popping the events created in
\* the call.
C12_Witness ==
    /\ pc = "done"
    /\ ret = Ok(res)
    /\ res # "none"
    /\ nid >= 2
    /\ event_queue = <<>>

====
